---- MODULE Spec2Model ----
\* A model of src/src/handler.py: the start-up sequence of the worker
\* (wait_for_service, set_sd_model_checkpoint, runpod.serverless.start) and the
\* job handler (LoRA injection, default filling, run_sd_inference, error
\* conversion).
EXTENDS Integers, Sequences, FiniteSets, TLC

\* ------------------------------------------------------------------ bounds
\* The health-check loop has no attempt cap; the model stops counting here.
MaxAttempts == 3
\* Longest "loras" list of a job input.
MaxLoras == 2

\* ------------------------------------------------------- program constants
log_interval == 15

\* ------------------------------------------------------- exception classes
\* requests.exceptions: HTTPError, ConnectionError, Timeout and
\* JSONDecodeError derive from RequestException, which derives from Exception.
\* TypeError, ValueError, AttributeError and KeyError derive from Exception only.
RequestExceptionKinds == {"HTTPError", "ConnectionError", "Timeout", "JSONDecodeError"}
OtherExceptionKinds == {"TypeError", "ValueError", "AttributeError", "KeyError"}

IsHTTPError(k) == k = "HTTPError"
IsRequestException(k) == k \in RequestExceptionKinds
IsException(k) == k \in RequestExceptionKinds \cup OtherExceptionKinds

\* An exception object: its class and, for request exceptions, the response it
\* carries (status 0: no response attached).
Exc(k, st) == [kind |-> k, status |-> st]
NoExc == Exc("none", 0)

\* Status codes for which Response.raise_for_status raises (it always attaches
\* the response to the HTTPError it raises).
ErrorStatuses == {404, 500}

\* ------------------------------------------------------------- checkpoints
\* Names are sequences of tokens; "a in b" on strings is Contains on them.
checkpoint_model_filename == <<"Gemini_ILMixV5", ".safetensors">>
\* A title as the API reports it: the file name followed by a hash.
RequestedTitle == checkpoint_model_filename \o <<" [", "hash", "]">>
OtherTitle == <<"Gemini_ILMixV4", ".safetensors", " [", "hash", "]">>
EmptyTitle == << >>
ServerTitles == {RequestedTitle, OtherTitle}

PyNone == [t |-> "None", s |-> << >>]
PyStr(s) == [t |-> "str", s |-> s]
NoValue == [t |-> "unset", s |-> << >>]

\* Python's substring test "needle in hay".
Contains(needle, hay) ==
  \E i \in 1..(Len(hay) - Len(needle) + 1) :
     SubSeq(hay, i, i + Len(needle) - 1) = needle

VARIABLES
  mainPc,            \* position of the __main__ sequence
  api,               \* the local service: "up" answers the health check with success
  retries_count,     \* wait_for_service: failed attempts so far
  lastLogged,        \* wait_for_service: the last failed attempt printed a line
  lastCheck,         \* wait_for_service: outcome of the last health check
  healthOk,          \* a health check has succeeded
  activeCheckpoint,  \* the checkpoint the service has loaded
  postStatus,        \* set_sd_model_checkpoint: outcome of POST /options
  getIssued,         \* set_sd_model_checkpoint: GET /options was sent
  new_checkpoint,    \* set_sd_model_checkpoint: the value read back
  ckptReport,        \* set_sd_model_checkpoint: the line it printed
  switchFinished,    \* set_sd_model_checkpoint has returned
  hPc,               \* position of the current handler invocation
  event,             \* the event the handler was invoked with
  forwarded,         \* the payload posted to the inference API
  endpoint,          \* the endpoint it was posted to
  inferenceCalls,    \* run_sd_inference invocations of this handler invocation
  posts,             \* session.post calls of this handler invocation
  raised,            \* the exception run_sd_inference raised, or the handler let out
  result             \* the value the handler returned

startupVars == <<mainPc, api, retries_count, lastLogged, lastCheck, healthOk,
                 activeCheckpoint, postStatus, getIssued, new_checkpoint,
                 ckptReport, switchFinished>>
handlerVars == <<hPc, event, forwarded, endpoint, inferenceCalls, posts, raised, result>>
vars == <<startupVars, handlerVars>>

Waiting == {"wait_check", "wait_sleep"}

\* ------------------------------------------------------- wait_for_service
\* Faulty variant: the loop lacks its second clause, except Exception.
WaitCatchesRequestOnly(k) == IsRequestException(k)

\* The except clauses of the polling loop.
WaitCatches(k) == IsRequestException(k) \/ IsException(k)

ShouldLog(n) == n = 1 \/ n % log_interval = 0

\* Failures of the health GET followed by raise_for_status, and of anything
\* else inside the try body.
HealthFailureKinds == {"HTTPError", "ConnectionError", "Timeout", "ValueError"}

\* Faulty variant: the loop gives up and returns at a failed check.
WaitStepReturnsOnFailure(outcome) ==
  IF outcome = "ok" \/ IsException(outcome) THEN "return" ELSE "raise"

\* The polling loop's reaction to one health check: "return", "retry" or
\* "raise".
WaitStep(outcome) ==
  IF outcome = "ok" THEN "return"
  ELSE IF WaitCatches(outcome) THEN "retry"
  ELSE "raise"

HealthCheck ==
  /\ mainPc = "wait_check"
  /\ \E outcome \in (IF api = "up" THEN {"ok"} ELSE HealthFailureKinds) :
       /\ lastCheck' = outcome
       /\ CASE WaitStep(outcome) = "return" ->
                 /\ mainPc' = "set_post"
                 /\ healthOk' = (outcome = "ok")
                 /\ retries_count' = 0
                 /\ lastLogged' = FALSE
            [] WaitStep(outcome) = "retry" ->
                 /\ retries_count < MaxAttempts
                 /\ retries_count' = retries_count + 1
                 /\ lastLogged' = ShouldLog(retries_count + 1)
                 /\ mainPc' = "wait_sleep"
                 /\ UNCHANGED healthOk
            [] OTHER ->
                 /\ mainPc' = "crashed"
                 /\ UNCHANGED <<healthOk, retries_count, lastLogged>>
  /\ UNCHANGED <<api, activeCheckpoint, postStatus, getIssued, new_checkpoint,
                 ckptReport, switchFinished, handlerVars>>

WaitSleep ==
  /\ mainPc = "wait_sleep"
  /\ mainPc' = "wait_check"
  /\ UNCHANGED <<api, retries_count, lastLogged, lastCheck, healthOk,
                 activeCheckpoint, postStatus, getIssued, new_checkpoint,
                 ckptReport, switchFinished, handlerVars>>

\* The service comes up or goes down while the worker is polling it.
ApiChange ==
  /\ mainPc \in Waiting
  /\ api' \in {"up", "down"} \ {api}
  /\ UNCHANGED <<mainPc, retries_count, lastLogged, lastCheck, healthOk,
                 activeCheckpoint, postStatus, getIssued, new_checkpoint,
                 ckptReport, switchFinished, handlerVars>>

\* ------------------------------------------------ set_sd_model_checkpoint
\* Faulty variant: no except Exception clause after the two request clauses.
SetCheckpointExceptRequestsOnly(e) ==
  IF IsHTTPError(e.kind)
    THEN (IF e.status # 0 THEN "http_error" ELSE "propagate")
  ELSE IF IsRequestException(e.kind) THEN "request_error"
  ELSE "propagate"

\* The except clauses: the line printed, or "propagate" when the exception
\* leaves the function.  The HTTPError clause reads
\* http_err.response.status_code, which raises inside the clause when the
\* exception carries no response.
SetCheckpointExcept(e) ==
  IF IsHTTPError(e.kind)
    THEN (IF e.status # 0 THEN "http_error" ELSE "propagate")
  ELSE IF IsRequestException(e.kind) THEN "request_error"
  ELSE IF IsException(e.kind) THEN "unexpected_error"
  ELSE "propagate"

\* Faulty variant: any non-empty value read back counts as a success.
VerifiedNonEmptyOnly(requested, v) == v.t = "str" /\ v.s # << >>

\* The test of the read-back value.
Verified(requested, v) == v.t = "str" /\ v.s # << >> /\ Contains(requested, v.s)

VerifyReport(requested, v) ==
  IF Verified(requested, v) THEN "success" ELSE "warning"

\* What session.post followed by raise_for_status can raise: raise_for_status
\* is the only raiser of HTTPError in the try body and attaches the response.
PostFailures ==
  {Exc("HTTPError", st) : st \in ErrorStatuses}
    \cup {Exc("ConnectionError", 0), Exc("Timeout", 0), Exc("TypeError", 0)}

\* What session.get(...).json() and current_options.get(...) can raise: no
\* raise_for_status is called on the read-back.
ReadBackFailures ==
  {Exc("ConnectionError", 0), Exc("Timeout", 0), Exc("JSONDecodeError", 0),
   Exc("ValueError", 0), Exc("AttributeError", 0)}

\* The function ends: normally, or by an exception that leaves __main__.
SetCheckpointEnd(report) ==
  IF report = "propagate"
    THEN /\ mainPc' = "crashed"
         /\ UNCHANGED <<ckptReport, switchFinished>>
    ELSE /\ mainPc' = "set_done"
         /\ ckptReport' = report
         /\ switchFinished' = TRUE

SetCheckpointPost ==
  /\ mainPc = "set_post"
  /\ \/ /\ postStatus' = "ok"
        /\ activeCheckpoint' \in {RequestedTitle, activeCheckpoint}
        /\ mainPc' = "set_get"
        /\ UNCHANGED <<ckptReport, switchFinished>>
     \/ \E e \in PostFailures :
          /\ postStatus' = e.kind
          /\ SetCheckpointEnd(SetCheckpointExcept(e))
          /\ UNCHANGED activeCheckpoint
  /\ UNCHANGED <<api, retries_count, lastLogged, lastCheck, healthOk,
                 getIssued, new_checkpoint, handlerVars>>

SetCheckpointReadBack ==
  /\ mainPc = "set_get"
  /\ getIssued' = TRUE
  /\ \/ \E v \in {PyNone, PyStr(EmptyTitle), PyStr(activeCheckpoint)} :
          /\ new_checkpoint' = v
          /\ SetCheckpointEnd(VerifyReport(checkpoint_model_filename, v))
     \/ \E e \in ReadBackFailures :
          /\ SetCheckpointEnd(SetCheckpointExcept(e))
          /\ UNCHANGED new_checkpoint
  /\ UNCHANGED <<api, retries_count, lastLogged, lastCheck, healthOk,
                 activeCheckpoint, postStatus, handlerVars>>

\* runpod.serverless.start: from here on the runtime invokes handler.  The
\* locals of set_sd_model_checkpoint are gone by then.
StartWorker ==
  /\ mainPc = "set_done"
  /\ mainPc' = "serving"
  /\ postStatus' = "none"
  /\ getIssued' = FALSE
  /\ new_checkpoint' = NoValue
  /\ ckptReport' = "none"
  /\ UNCHANGED <<api, retries_count, lastLogged, lastCheck, healthOk,
                 activeCheckpoint, switchFinished, handlerVars>>

\* ------------------------------------------------------------ Python values
\* A scalar: its type, its text (str) and its number (int; float in tenths).
VNone == [t |-> "None", s |-> "", n |-> 0]
VInt(n) == [t |-> "int", s |-> "", n |-> n]
VFloat(tenths) == [t |-> "float", s |-> "", n |-> tenths]
VStr(s) == [t |-> "str", s |-> s, n |-> 0]
\* A list and its items.
VList(items) == [t |-> "list", items |-> items]
\* Not a Python value: the key is absent from the dict.
Absent == [t |-> "absent"]

\* bool(v)
Truthy(v) ==
  CASE v.t = "None" -> FALSE
    [] v.t \in {"int", "float"} -> v.n # 0
    [] v.t = "str" -> v.s # ""
    [] v.t = "list" -> v.items # << >>

\* isinstance(v, (int, float))
IsNumber(v) == v.t \in {"int", "float"}

\* str(v), as an f-string formats it
Format(v) ==
  CASE v.t = "None" -> "None"
    [] v.t = "int" -> ToString(v.n)
    [] v.t = "float" -> ToString(v.n \div 10) \o "." \o ToString(v.n % 10)
    [] v.t = "str" -> v.s

\* Faulty variant of setdefault: a falsy supplied value is overwritten too.
SetDefaultIfFalsy(d, k, v) ==
  IF k \in DOMAIN d /\ Truthy(d[k]) THEN d
  ELSE [x \in DOMAIN d \cup {k} |-> IF x = k THEN v ELSE d[x]]

\* dict.get, dict.pop's effect on the dict, dict.setdefault's effect on it
Get(d, k, default) == IF k \in DOMAIN d THEN d[k] ELSE default
Pop(d, k) == [x \in DOMAIN d \ {k} |-> d[x]]
SetDefault(d, k, v) ==
  IF k \in DOMAIN d THEN d
  ELSE [x \in DOMAIN d \cup {k} |-> IF x = k THEN v ELSE d[x]]

\* --------------------------------------------------------------- handler
\* A LoRA descriptor: a dict with some of the keys name and weight, or
\* something that is no dict.
LoraDict(fields) == [isDict |-> TRUE, fields |-> fields]
LoraNotDict == [isDict |-> FALSE, fields |-> << >>]

\* Faulty variant: the weight is tested for truth, not for being a number.
LoraTagTruthyWeight(lora_entry) ==
  LET lora_name == Get(lora_entry.fields, "name", VNone)
      lora_weight == Get(lora_entry.fields, "weight", VNone)
  IN IF Truthy(lora_name) /\ Truthy(lora_weight)
       THEN " <lora:" \o Format(lora_name) \o ":" \o Format(lora_weight) \o ">"
       ELSE ""

\* One pass of the loop body: the text appended to lora_prompt_segment.
LoraTag(lora_entry) ==
  LET lora_name == Get(lora_entry.fields, "name", VNone)
      lora_weight == Get(lora_entry.fields, "weight", VNone)
  IN IF Truthy(lora_name) /\ IsNumber(lora_weight)
       THEN " <lora:" \o Format(lora_name) \o ":" \o Format(lora_weight) \o ">"
       ELSE ""

\* The loop over loras_to_apply: lora_entry.get raises AttributeError on an
\* entry that is no dict.
RECURSIVE LoraLoop(_, _)
LoraLoop(loras_to_apply, lora_prompt_segment) ==
  IF loras_to_apply = << >>
    THEN [exc |-> "none", segment |-> lora_prompt_segment]
  ELSE IF ~Head(loras_to_apply).isDict
    THEN [exc |-> "AttributeError", segment |-> lora_prompt_segment]
  ELSE LoraLoop(Tail(loras_to_apply),
                lora_prompt_segment \o LoraTag(Head(loras_to_apply)))

\* The LoRA injection block: the exception it raises, and job_input after it.
InjectLoras(job_input) ==
  LET loras_to_apply == Get(job_input, "loras", VList(<< >>))
      popped == Pop(job_input, "loras")
      current_prompt == Get(popped, "prompt", VStr(""))
      loop == LoraLoop(loras_to_apply.items, "")
  IN IF ~Truthy(loras_to_apply) THEN [exc |-> "none", job_input |-> popped]
     ELSE IF loop.exc # "none" THEN [exc |-> loop.exc, job_input |-> popped]
     ELSE IF loop.segment = "" THEN [exc |-> "none", job_input |-> popped]
     ELSE IF current_prompt.t # "str" THEN [exc |-> "TypeError", job_input |-> popped]
     ELSE [exc |-> "none",
           job_input |-> [x \in DOMAIN popped \cup {"prompt"} |->
                            IF x = "prompt"
                              THEN VStr(current_prompt.s \o loop.segment)
                              ELSE popped[x]]]

DefaultKeys == <<"steps", "sampler_name", "cfg_scale", "width", "height",
                 "seed", "negative_prompt">>
defaults ==
  [k \in {DefaultKeys[i] : i \in DOMAIN DefaultKeys} |->
     CASE k = "steps" -> VInt(20)
       [] k = "sampler_name" -> VStr("Euler a")
       [] k = "cfg_scale" -> VFloat(70)
       [] k = "width" -> VInt(512)
       [] k = "height" -> VInt(512)
       [] k = "seed" -> VInt(-1)
       [] k = "negative_prompt" -> VStr("")]

\* for key, value in defaults.items(): job_input.setdefault(key, value)
RECURSIVE ApplyDefaults(_, _)
ApplyDefaults(job_input, keys) ==
  IF keys = << >> THEN job_input
  ELSE ApplyDefaults(SetDefault(job_input, Head(keys), defaults[Head(keys)]),
                     Tail(keys))

\* Lines 110-148: everything before the try block.  event["input"] raises
\* KeyError when the event has no input.
Prepare(ev) ==
  IF ~ev.hasInput THEN [exc |-> "KeyError", job_input |-> << >>]
  ELSE LET injected == InjectLoras(ev.input)
       IN IF injected.exc # "none" THEN injected
          ELSE [exc |-> "none",
                job_input |-> ApplyDefaults(injected.job_input, DefaultKeys)]

\* Faulty variant: the key's presence alone selects img2img.
ApiEndpointByPresence(inference_payload) ==
  IF "init_images" \in DOMAIN inference_payload THEN "img2img" ELSE "txt2img"

\* run_sd_inference: the endpoint the payload is posted to.
ApiEndpoint(inference_payload) ==
  IF "init_images" \in DOMAIN inference_payload
       /\ Truthy(inference_payload["init_images"])
    THEN "img2img"
    ELSE "txt2img"

\* The JSON body of a successful inference response.
ApiResponse == [images |-> "base64", info |-> "{}"]
NoResult == [none |-> TRUE]
ErrorResult(message, code) == [error |-> message, status_code |-> code]

\* Faulty variant: every failure is reported as 500.
HandlerExceptAlways500(e) ==
  IF IsHTTPError(e.kind)
    THEN [error |-> "AUTOMATIC1111 API HTTP Error", status_code |-> 500]
  ELSE IF IsRequestException(e.kind)
    THEN [error |-> "AUTOMATIC1111 API Request Error", status_code |-> 500]
  ELSE [error |-> "An unexpected error occurred in the handler", status_code |-> 500]

\* The except clauses of handler: the result returned for an exception
\* raised by run_sd_inference.
HandlerExcept(e) ==
  IF IsHTTPError(e.kind)
    THEN ErrorResult("AUTOMATIC1111 API HTTP Error",
                     IF e.status # 0 THEN e.status ELSE 500)
  ELSE IF IsRequestException(e.kind)
    THEN ErrorResult("AUTOMATIC1111 API Request Error", 503)
  ELSE ErrorResult("An unexpected error occurred in the handler", 500)

\* What run_sd_inference can raise with the requests library under it:
\* raise_for_status attaches the response to its HTTPError; json() raises
\* JSONDecodeError or, in older releases, ValueError.
LibraryFailures ==
  {Exc("HTTPError", st) : st \in ErrorStatuses}
    \cup {Exc("ConnectionError", 0), Exc("JSONDecodeError", 0), Exc("ValueError", 0)}
\* Every exception the except clauses of handler distinguish.
AnyFailures == LibraryFailures \cup {Exc("HTTPError", 0)}

\* ------------------------------------------------------------- job inputs
Supplied ==
  [k \in {"steps", "sampler_name", "cfg_scale", "width", "height", "seed",
          "negative_prompt", "denoising_strength"} |->
     CASE k = "steps" -> VInt(30)
       [] k = "sampler_name" -> VStr("DPM++ 2M")
       [] k = "cfg_scale" -> VFloat(45)
       [] k = "width" -> VInt(768)
       [] k = "height" -> VInt(1024)
       [] k = "seed" -> VInt(0)
       [] k = "negative_prompt" -> VStr("blurry")
       [] k = "denoising_strength" -> VFloat(5)]
SuppliedSets ==
  { {}, DOMAIN Supplied,
    {"steps", "cfg_scale", "seed", "denoising_strength"},
    {"sampler_name", "width", "height", "negative_prompt"} }
Prompts == {Absent, VStr("a cat"), VNone}
InitImages == {Absent, VList(<< >>), VList(<<"base64">>)}
LoraEntries ==
  { LoraDict(("name" :> VStr("detail")) @@ ("weight" :> VInt(1))),
    LoraDict(("name" :> VStr("style")) @@ ("weight" :> VFloat(7))),
    LoraDict(("name" :> VStr("")) @@ ("weight" :> VInt(1))),
    LoraDict(("name" :> VStr("detail")) @@ ("weight" :> VStr("0.7"))),
    LoraDict(<< >>),
    LoraNotDict }
LoraLists ==
  {Absent} \cup
  {VList(l) : l \in UNION {[1..n -> LoraEntries] : n \in 0..MaxLoras}}

JobInput(p, im, lr, sup) ==
  LET ks == (IF p = Absent THEN {} ELSE {"prompt"})
              \cup (IF im = Absent THEN {} ELSE {"init_images"})
              \cup (IF lr = Absent THEN {} ELSE {"loras"})
              \cup sup
  IN [k \in ks |->
        CASE k = "prompt" -> p
          [] k = "init_images" -> im
          [] k = "loras" -> lr
          [] OTHER -> Supplied[k]]

Events ==
  {[hasInput |-> FALSE, input |-> << >>]}
    \cup {[hasInput |-> TRUE, input |-> JobInput(p, im, lr, sup)] :
            p \in Prompts, im \in InitImages, lr \in LoraLists, sup \in SuppliedSets}

\* handler(event) up to the moment run_sd_inference has posted the payload,
\* or up to the exception raised before the try block.
HandlerInvoke ==
  /\ mainPc = "serving"
  /\ hPc = "idle"
  /\ \E ev \in Events :
       LET prepared == Prepare(ev)
       IN /\ event' = ev
          /\ result' = NoResult
          /\ IF prepared.exc # "none"
               THEN /\ hPc' = "raised"
                    /\ raised' = Exc(prepared.exc, 0)
                    /\ forwarded' = << >>
                    /\ endpoint' = "none"
                    /\ inferenceCalls' = 0
                    /\ posts' = 0
               ELSE /\ hPc' = "posted"
                    /\ raised' = NoExc
                    /\ forwarded' = prepared.job_input
                    /\ endpoint' = ApiEndpoint(prepared.job_input)
                    /\ inferenceCalls' = 1
                    /\ posts' = 1
  /\ UNCHANGED startupVars

\* The POST returns or raises, and handler returns its result.
Respond(failures) ==
  /\ hPc = "posted"
  /\ \/ /\ result' = ApiResponse
        /\ UNCHANGED raised
     \/ \E e \in failures :
          /\ raised' = e
          /\ result' = HandlerExcept(e)
  /\ hPc' = "returned"
  /\ UNCHANGED <<startupVars, event, forwarded, endpoint, inferenceCalls, posts>>

InferenceRespond == Respond(LibraryFailures)
InferenceRespondAny == Respond(AnyFailures)

NoHandler ==
  /\ hPc = "idle"
  /\ event = [hasInput |-> FALSE, input |-> << >>]
  /\ forwarded = << >>
  /\ endpoint = "none"
  /\ inferenceCalls = 0
  /\ posts = 0
  /\ raised = NoExc
  /\ result = NoResult

NoHandlerNext ==
  /\ hPc' = "idle"
  /\ event' = [hasInput |-> FALSE, input |-> << >>]
  /\ forwarded' = << >>
  /\ endpoint' = "none"
  /\ inferenceCalls' = 0
  /\ posts' = 0
  /\ raised' = NoExc
  /\ result' = NoResult

\* The invocation is over (handler returned, or raised into the runtime);
\* the runtime waits for the next job.
JobDone ==
  /\ hPc \in {"returned", "raised"}
  /\ NoHandlerNext
  /\ UNCHANGED startupVars

\* ---------------------------------------------------------- specifications
Init ==
  /\ mainPc = "wait_check"
  /\ api \in {"up", "down"}
  /\ retries_count = 0
  /\ lastLogged = FALSE
  /\ lastCheck = "none"
  /\ healthOk = FALSE
  /\ activeCheckpoint \in ServerTitles
  /\ postStatus = "none"
  /\ getIssued = FALSE
  /\ new_checkpoint = NoValue
  /\ ckptReport = "none"
  /\ switchFinished = FALSE
  /\ NoHandler

Next ==
  \/ HealthCheck
  \/ WaitSleep
  \/ ApiChange
  \/ SetCheckpointPost
  \/ SetCheckpointReadBack
  \/ StartWorker
  \/ HandlerInvoke
  \/ InferenceRespond
  \/ JobDone

Spec == Init /\ [][Next]_vars

\* The main sequence alone, up to runpod.serverless.start.  The loop and the
\* sleep are sequential code: a step that can be taken is taken.
StartupNext ==
  \/ HealthCheck
  \/ WaitSleep
  \/ ApiChange
  \/ SetCheckpointPost
  \/ SetCheckpointReadBack
  \/ StartWorker

LiveSpec ==
  /\ Init
  /\ [][StartupNext]_vars
  /\ WF_vars(HealthCheck)
  /\ WF_vars(WaitSleep)

\* handler on its own, in a started worker, with run_sd_inference raising any
\* exception its except clauses tell apart.
InitServing ==
  /\ mainPc = "serving"
  /\ api = "up"
  /\ retries_count = 0
  /\ lastLogged = FALSE
  /\ lastCheck = "ok"
  /\ healthOk = TRUE
  /\ activeCheckpoint \in ServerTitles
  /\ postStatus = "none"
  /\ getIssued = FALSE
  /\ new_checkpoint = NoValue
  /\ ckptReport = "none"
  /\ switchFinished = TRUE
  /\ NoHandler

HandlerNext ==
  \/ HandlerInvoke
  \/ InferenceRespondAny
  \/ JobDone

SpecHandler == InitServing /\ [][HandlerNext]_vars

\* ------------------------------------------------------------------ claims
Handled == hPc \in {"posted", "returned", "raised"}
Forwarded == hPc \in {"posted", "returned"}

\* C1: the model-switch request is issued only after a health check has
\* succeeded; the worker is started only after a health check has succeeded
\* and the model-switch attempt has finished; no job is handled before the
\* first successful health check.
StartupOrdering ==
  /\ (mainPc \in {"set_post", "set_get", "set_done"} \/ postStatus # "none" \/ getIssued)
       => healthOk
  /\ mainPc = "serving" => (healthOk /\ switchFinished)
  /\ Handled => (mainPc = "serving" /\ healthOk /\ switchFinished)

StartupOrderingWitness ==
  /\ hPc = "returned"
  /\ healthOk
  /\ switchFinished

\* C2: wait_for_service leaves its loop only by returning, in the very step
\* in which a health check succeeded, and never returns or raises after a
\* failed check of any kind, however many attempts have failed; and if the
\* health endpoint eventually answers with success forever, it eventually
\* returns.
LeavesLoopOnlyOnSuccess ==
  mainPc \in Waiting =>
    /\ mainPc' \notin Waiting => (lastCheck' = "ok" /\ mainPc' = "set_post")
    /\ lastCheck' = "ok" => mainPc' = "set_post"
    /\ retries_count' > retries_count => mainPc' = "wait_sleep"
PollsUntilSuccess ==
  /\ [][LeavesLoopOnlyOnSuccess]_vars
  /\ (<>[](api = "up")) => <>(mainPc \notin Waiting)

PollsUntilSuccessWitness ==
  /\ mainPc = "set_post"
  /\ lastCheck = "ok"
  /\ healthOk

\* C3: every invocation of handler, whatever the job input and the outcome,
\* invokes run_sd_inference exactly once and issues exactly one POST.
ExactlyOneInferenceCall ==
  hPc \in {"returned", "raised"} => (inferenceCalls = 1 /\ posts = 1)

ClaimedStatus(e) ==
  CASE e.kind = "HTTPError" /\ e.status # 0 -> e.status
    [] e.kind = "HTTPError" /\ e.status = 0 -> 500
    [] e.kind \in {"ConnectionError", "Timeout", "JSONDecodeError"} -> 503
    [] OTHER -> 500

\* C5: when the inference call fails, handler returns (it does not raise) a
\* result with the keys error and status_code; status_code is the response's
\* status for an HTTP error with a response, 500 for an HTTP error without a
\* response or a non-request exception, 503 for any other request error.
ErrorConversion ==
  (inferenceCalls = 1 /\ raised # NoExc) =>
    /\ hPc = "returned"
    /\ {"error", "status_code"} \subseteq DOMAIN result
    /\ result.status_code = ClaimedStatus(raised)

ErrorConversionWitness ==
  /\ hPc = "returned"
  /\ raised = Exc("HTTPError", 0)
  /\ result.status_code = 500

\* C6: no invocation of handler ends by raising an exception.
HandlerNeverRaises == hPc # "raised"

\* The descriptors C7 calls valid, and the tag text it expects for them.
ValidDescriptor(d) ==
  /\ d.isDict
  /\ {"name", "weight"} \subseteq DOMAIN d.fields
  /\ d.fields["name"].t = "str" /\ d.fields["name"].s # ""
  /\ d.fields["weight"].t \in {"int", "float"}
WeightText(w) ==
  CASE w = VInt(1) -> "1"
    [] w = VFloat(7) -> "0.7"
ExpectedTag(d) ==
  " <lora:" \o d.fields["name"].s \o ":" \o WeightText(d.fields["weight"]) \o ">"
RECURSIVE ExpectedTags(_)
ExpectedTags(ds) ==
  IF ds = << >> THEN "" ELSE ExpectedTag(Head(ds)) \o ExpectedTags(Tail(ds))
ListedLoras == IF "loras" \in DOMAIN event.input THEN event.input["loras"].items ELSE << >>
ValidLoras == SelectSeq(ListedLoras, ValidDescriptor)
OriginalPrompt == IF "prompt" \in DOMAIN event.input THEN event.input["prompt"].s ELSE ""

\* C7: the forwarded payload has no loras key; its prompt is the original
\* prompt (empty if absent) followed by one tag per valid descriptor, in the
\* order listed; when no descriptor is valid the prompt is as it arrived.
LoraTransformation ==
  Forwarded =>
    /\ "loras" \notin DOMAIN forwarded
    /\ IF ValidLoras # << >>
         THEN /\ "prompt" \in DOMAIN forwarded
              /\ forwarded["prompt"] = VStr(OriginalPrompt \o ExpectedTags(ValidLoras))
         ELSE /\ "prompt" \in DOMAIN forwarded <=> "prompt" \in DOMAIN event.input
              /\ "prompt" \in DOMAIN forwarded
                   => forwarded["prompt"] = event.input["prompt"]

LoraTransformationWitness ==
  /\ hPc = "posted"
  /\ Len(ListedLoras) = 2
  /\ "prompt" \in DOMAIN forwarded
  /\ forwarded["prompt"] = VStr("a cat <lora:style:0.7> <lora:detail:1>")

DefaultFields ==
  {"steps", "sampler_name", "cfg_scale", "width", "height", "seed", "negative_prompt"}

\* C8: the forwarded payload holds all seven default fields; a field has its
\* default only when the job input lacked it; every field the job supplied,
\* except loras and the LoRA-extended prompt, is forwarded unchanged.
DefaultFilling ==
  Forwarded =>
    /\ DefaultFields \subseteq DOMAIN forwarded
    /\ \A k \in DefaultFields \ DOMAIN event.input : forwarded[k] = defaults[k]
    /\ \A k \in DOMAIN event.input \ {"loras", "prompt"} :
         k \in DOMAIN forwarded /\ forwarded[k] = event.input[k]
    /\ DOMAIN forwarded \subseteq
         (DOMAIN event.input \ {"loras"}) \cup DefaultFields \cup {"prompt"}

DefaultFillingWitness ==
  /\ hPc = "posted"
  /\ {"seed", "denoising_strength"} \subseteq DOMAIN event.input
  /\ "sampler_name" \notin DOMAIN event.input
  /\ forwarded["seed"] = VInt(0)
  /\ forwarded["sampler_name"] = VStr("Euler a")
  /\ forwarded["denoising_strength"] = VFloat(5)

\* C9: the configuration is read back only after the POST succeeded; the
\* switch is reported successful only when the value read back is non-empty
\* and contains the requested name, and a value read back that fails this
\* test is reported with a warning.
ReadBackAfterPost ==
  /\ (getIssued \/ mainPc = "set_get") => postStatus = "ok"
  /\ ckptReport = "success" =>
       (getIssued /\ new_checkpoint = PyStr(RequestedTitle))
  /\ (mainPc = "set_done" /\ new_checkpoint \notin {NoValue, PyStr(RequestedTitle)})
       => ckptReport = "warning"

ReadBackWitness ==
  /\ mainPc = "set_done"
  /\ postStatus = "ok"
  /\ ckptReport = "success"

\* C10: whatever the POST and the read-back do, set_sd_model_checkpoint
\* returns normally and the worker is then started; jobs are handled also
\* when the active checkpoint is not the requested one.
SwitchNeverFatal ==
  /\ healthOk => mainPc # "crashed"
  /\ postStatus \notin {"none", "ok"} => (mainPc = "set_done" /\ switchFinished)
  /\ (getIssued /\ mainPc # "serving") => (mainPc = "set_done" /\ switchFinished)
  /\ mainPc = "set_done" => ENABLED StartWorker

SwitchNeverFatalWitness ==
  /\ hPc = "posted"
  /\ activeCheckpoint # RequestedTitle

====
